---- MODULE Spec2Model ----
(***************************************************************************)
(* A model of the Agent Builder (src/agent_builder/agent_builder.py): the  *)
(* three-tier component store, the interactive collection wizard, the      *)
(* validator, the renderer, the metrics record and persistence, and of the *)
(* command-line entry point (src/agent_builder/cli.py), of the legacy      *)
(* five-step builder (src/agent-builder/simple_builder.py) and of a script *)
(* that goes through several builders (src/examples/basic_examples.py).    *)
(*                                                                         *)
(* Values.  A scalar component is None (<<>>) or a one-element sequence    *)
(* <<text>>; a list component is a sequence of items.  Scores are kept     *)
(* exact: clarity in points (3 stands for 3.0), ratios as [num, den].      *)
(***************************************************************************)
EXTENDS Integers, Sequences, FiniteSets, TLC

VARIABLES
    mode,          \* AgentBuilder.mode
    interactive,   \* AgentBuilder.interactive
    ai_assistant,  \* TRUE iff AgentBuilder.ai_assistant is an Agent object
    components,    \* AgentBuilder.components (the dict)
    metrics,       \* AgentBuilder.metrics (the dataclass)
    clock,         \* time.time()
    pc,            \* the prompt the running method is blocked on, "idle"
                   \* when none is running
    called,        \* the method the caller called last: build or a build_*
    acc,           \* the local list a collection loop of the method is filling
    input_ex,      \* the local input_ex of the examples loop while the
                   \* output prompt is open, None when it is not in use
    builds,        \* number of calls of build() and the build_* methods made
    sets,          \* number of direct writes builder.components[k] = v made
    validation,    \* the ValidationResult last returned, cleared by a store write
    solicited,     \* the fields the running method has asked for, in order
    written,       \* per field, the writes the running method has made to it
    prompt,        \* the text generate_prompt() last returned, as its lines,
                   \* cleared by a store write
    reading,       \* the dict metrics.to_dict() last returned, cleared when
                   \* the record or the clock changes
    files,         \* the snapshots written to disk, in order
    main,          \* the position of the calling program: "script" for a
                   \* library caller, else the stage of cli.main()
    raised,        \* the last exception that left a call, "none" so far
    step,          \* the legacy builder: the position of AgentsBuilder.run()
    data,          \* SimpleAgent.data
    content,       \* AgentsBuilder.content, as its lines
    refiner,       \* AIRefiner: enabled, and agent (TRUE iff it is an Agent)
    refined,       \* the local refined of _optional_refine(), None before
    inputs,        \* what the legacy program has got from outside so far, in
                   \* order: the answer typed at each prompt and the outcome
                   \* of each call that can fail, as pairs <<prompt, answer>>
    filename,      \* the local filename of _save(), None before the prompt
    saved,         \* the files _save() has written, in order
    first          \* history: the first call of generate_prompt() that a
                   \* script going through several builders has made, as the
                   \* text returned and the builder at the call; None before

\* the state of the calling program around the builder
caller == <<prompt, reading, files, main, raised>>

\* the state of the legacy five-step builder
legacy == <<step, data, content, refiner, refined, inputs, filename, saved>>

\* the locals of the running method beside the list it is filling
locals == <<called, input_ex>>

vars == <<mode, interactive, ai_assistant, components, metrics, clock, pc, acc,
          builds, sets, validation, solicited, written, locals, caller, legacy,
          first>>

---------------------------------------------------------------------------
(* Bounds of the model *)

MaxClock == 2
MaxItems == 1
MaxBuilds == 2
MaxSets == 2

---------------------------------------------------------------------------
(* Program constants *)

RoleDetailLen == 20
TaskDetailLen == 30
ClarityNoRole == 3
ClarityShortRole == 6
ClarityGoodRole == 8
ClarityNoTask == 3
ClarityShortTask == 7
ClarityExpertCap == 6
ExpertCompletenessTenths == 7
BaseRateBasic == 85
BaseRateAssisted == 92
BaseRateExpert == 98

---------------------------------------------------------------------------
(* The component schema *)

Modes == {"basic", "ai_assisted", "expert"}

BasicFields == <<"role", "task", "constraints">>

AssistedFields == BasicFields \o <<"context", "examples", "output_format">>

ExpertFields ==
    AssistedFields \o <<"reasoning_pattern", "success_criteria", "edge_cases",
                        "performance_requirements", "custom_instructions">>

SchemaSeq(m) ==
    IF m = "basic" THEN BasicFields
    ELSE IF m = "ai_assisted" THEN AssistedFields
    ELSE ExpertFields

Range(s) == {s[i] : i \in 1..Len(s)}

Schema(m) == Range(SchemaSeq(m))

AllFields == Range(ExpertFields)

ListFields ==
    {"constraints", "examples", "success_criteria", "edge_cases",
     "custom_instructions"}

None == <<>>

Some(text) == <<text>>

\* the dict _initialize_components returns: None for text, [] for lists
InitialComponents(m) == [f \in Schema(m) |-> <<>>]

TotalComponents(m) == Len(SchemaSeq(m))

\* Python truthiness of a component value: None, "" and [] are falsy
Truthy(f, v) ==
    IF f \in ListFields THEN Len(v) > 0
    ELSE v # None /\ v[1] # ""

\* a test that takes every value other than None and [] for a value
HasAnyValue(c, f) == f \in DOMAIN c /\ c[f] # <<>>

\* truthiness of components.get(f)
Has(c, f) == f \in DOMAIN c /\ Truthy(f, c[f])

---------------------------------------------------------------------------
(* The metrics record *)

\* AgentBuilderMetrics(mode=mode), then total_components is set
InitialMetrics(m, now) ==
    [mode |-> m,
     start_time |-> now,
     end_time |-> None,
     components_filled |-> 0,
     total_components |-> TotalComponents(m),
     ai_suggestions_used |-> 0,
     ai_suggestions_offered |-> 0,
     validation_score |-> [num |-> 0, den |-> 1],
     user_satisfaction |-> None]

\* the property time_to_create: a falsy end_time counts as not set
TimeToCreate(m, now) ==
    IF m.end_time # None /\ m.end_time[1] # 0
    THEN m.end_time[1] - m.start_time
    ELSE now - m.start_time

Max(a, b) == IF a >= b THEN a ELSE b

\* base_rates[self.mode], in hundredths
BaseRate(m) ==
    IF m = "basic" THEN BaseRateBasic
    ELSE IF m = "ai_assisted" THEN BaseRateAssisted
    ELSE BaseRateExpert

\* the property success_rate: base_rate * components_filled / max(total, 1)
SuccessRate(m) ==
    [num |-> BaseRate(m.mode) * m.components_filled,
     den |-> 100 * Max(m.total_components, 1)]

\* to_dict(): both properties are evaluated at the call
ToDict(m, now) ==
    [mode |-> m.mode,
     time_to_create_seconds |-> TimeToCreate(m, now),
     components_filled |-> m.components_filled,
     total_components |-> m.total_components,
     ai_suggestions_used |-> m.ai_suggestions_used,
     ai_suggestions_offered |-> m.ai_suggestions_offered,
     validation_score |-> m.validation_score,
     estimated_success_rate |-> SuccessRate(m),
     user_satisfaction |-> m.user_satisfaction]

---------------------------------------------------------------------------
(* The validator *)

Min(a, b) == IF a <= b THEN a ELSE b

RoleClarity(c) ==
    IF ~Has(c, "role") THEN ClarityNoRole
    ELSE IF Len(c["role"][1]) < RoleDetailLen THEN ClarityShortRole
    ELSE ClarityGoodRole

\* a validator that assigns the task caps instead of taking the minimum
TaskClarityAssigned(c, clarity) ==
    IF ~Has(c, "task") THEN ClarityNoTask
    ELSE IF Len(c["task"][1]) < TaskDetailLen THEN ClarityShortTask
    ELSE clarity

TaskClarity(c, clarity) ==
    IF ~Has(c, "task") THEN Min(clarity, ClarityNoTask)
    ELSE IF Len(c["task"][1]) < TaskDetailLen THEN Min(clarity, ClarityShortTask)
    ELSE clarity

Issues(c) ==
    (IF ~Has(c, "role") THEN <<"Role is not defined">> ELSE <<>>)
    \o (IF ~Has(c, "task") THEN <<"Task is not defined">> ELSE <<>>)

FilledCount(c) == Cardinality({f \in DOMAIN c : Truthy(f, c[f])})

Completeness(c) == [num |-> FilledCount(c), den |-> Cardinality(DOMAIN c)]

\* a validator whose expert threshold is 0.8
LowCompletenessBelowEightTenths(r) == r.num * 10 < 8 * r.den

\* completeness_score < 0.7
LowCompleteness(r) == r.num * 10 < ExpertCompletenessTenths * r.den

ExpertLow(m, c) == m = "expert" /\ LowCompleteness(Completeness(c))

Suggestions(m, c) ==
    (IF Has(c, "role") /\ Len(c["role"][1]) < RoleDetailLen
        THEN <<"Consider adding more detail to the role description">> ELSE <<>>)
    \o (IF Has(c, "task") /\ Len(c["task"][1]) < TaskDetailLen
        THEN <<"Task could be more specific">> ELSE <<>>)
    \o (IF ~Has(c, "constraints")
        THEN <<"Consider adding constraints to guide behavior">> ELSE <<>>)
    \o (IF ExpertLow(m, c)
        THEN <<"Expert mode should utilize more advanced components">> ELSE <<>>)

\* a validator that forgets the expert-mode adjustment
ClarityScoreNoExpertCap(m, c) == TaskClarity(c, RoleClarity(c))

ClarityScore(m, c) ==
    IF ExpertLow(m, c)
    THEN Min(TaskClarity(c, RoleClarity(c)), ClarityExpertCap)
    ELSE TaskClarity(c, RoleClarity(c))

\* a validator that lets suggestions count against validity
IsValidNoSuggestions(issues, suggestions) ==
    Len(issues) = 0 /\ Len(suggestions) = 0

IsValid(issues, suggestions) == Len(issues) = 0

\* the ValidationResult validate_prompt builds
ValidationResult(m, c) ==
    [is_valid |-> IsValid(Issues(c), Suggestions(m, c)),
     clarity_score |-> ClarityScore(m, c),
     completeness_score |-> Completeness(c),
     issues |-> Issues(c),
     suggestions |-> Suggestions(m, c)]

\* ValidationResult.overall_score = clarity/10*0.5 + completeness*0.5
OverallScore(r) ==
    [num |-> r.clarity_score * r.completeness_score.den
             + 10 * r.completeness_score.num,
     den |-> 20 * r.completeness_score.den]

---------------------------------------------------------------------------
(* The renderer: generate_prompt().  The text is kept as its lines: a part *)
(* "\nX" of prompt_parts contributes the empty line and the line X, and    *)
(* the text is the lines joined by "\n".                                   *)

\* the canned sentence of each known reasoning pattern
ReasoningInstructions ==
    ("analytical" :> "Think through this step-by-step, showing your reasoning.")
    @@ ("creative" :> "Explore multiple approaches before selecting the best one.")
    @@ ("technical" :> "Break down the technical requirements systematically.")
    @@ ("step-by-step" :> "Approach this methodically, one step at a time.")
    @@ ("comparative" :> "Compare different options and explain your choice.")

\* a lookup that falls back on the first sentence of the table
ReasoningLineWithDefault(pattern) ==
    IF pattern \in DOMAIN ReasoningInstructions
    THEN ReasoningInstructions[pattern]
    ELSE ReasoningInstructions["analytical"]

\* an unknown pattern is emitted verbatim
ReasoningLine(pattern) ==
    IF pattern \in DOMAIN ReasoningInstructions
    THEN ReasoningInstructions[pattern]
    ELSE pattern

\* a renderer that lists the first item of a list only
BulletsFirstItemOnly(items) == <<"- " \o items[1]>>

Bullets(items) == [i \in 1..Len(items) |-> "- " \o items[i]]

RECURSIVE Concat(_)
Concat(seqs) == IF seqs = <<>> THEN <<>> ELSE Head(seqs) \o Concat(Tail(seqs))

\* "\nExample i:", "Input: ..." and "Output: ..." for each pair, i from 1
ExampleLines(examples) ==
    Concat([i \in 1..Len(examples) |->
              <<"", "Example " \o ToString(i) \o ":",
                "Input: " \o examples[i].input,
                "Output: " \o examples[i].output>>])

\* the parts one field contributes; a falsy or missing field contributes none
Section(c, f) ==
    IF ~Has(c, f) THEN <<>>
    ELSE IF f = "role" THEN <<"You are " \o c[f][1] \o ".">>
    ELSE IF f = "context" THEN <<"", "Context: " \o c[f][1]>>
    ELSE IF f = "task" THEN <<"", "Your task is to " \o c[f][1] \o ".">>
    ELSE IF f = "constraints" THEN <<"", "Constraints:">> \o Bullets(c[f])
    ELSE IF f = "examples" THEN <<"", "Examples:">> \o ExampleLines(c[f])
    ELSE IF f = "reasoning_pattern" THEN <<"", ReasoningLine(c[f][1])>>
    ELSE IF f = "output_format" THEN <<"", "Output Format: " \o c[f][1]>>
    ELSE IF f = "success_criteria"
        THEN <<"", "Success Criteria:">> \o Bullets(c[f])
    ELSE IF f = "edge_cases"
        THEN <<"", "Consider these edge cases:">> \o Bullets(c[f])
    ELSE IF f = "performance_requirements"
        THEN <<"", "Performance Requirements: " \o c[f][1]>>
    ELSE <<"", "Additional Instructions:">> \o Bullets(c[f])

\* a renderer that goes through the fields in schema order
RenderOrderOfSchema == ExpertFields

\* the order in which generate_prompt() looks at the fields
RenderOrder ==
    <<"role", "context", "task", "constraints", "examples",
      "reasoning_pattern", "output_format", "success_criteria", "edge_cases",
      "performance_requirements", "custom_instructions">>

\* a renderer that credits the suggestion service when the builder has one
PromptLinesCredited(c) ==
    Concat([i \in 1..Len(RenderOrder) |-> Section(c, RenderOrder[i])])
    \o (IF ai_assistant THEN <<"", "Reviewed by the Prompt-Engineer agent.">>
        ELSE <<>>)

\* a renderer that returns the part added last instead of joining the parts
PromptLinesLastPartOnly(c) ==
    LET parts == {i \in 1..Len(RenderOrder) : Section(c, RenderOrder[i]) # <<>>}
    IN IF parts = {} THEN <<>>
       ELSE Section(c, RenderOrder[CHOOSE i \in parts : \A j \in parts : j <= i])

PromptLines(c) ==
    Concat([i \in 1..Len(RenderOrder) |-> Section(c, RenderOrder[i])])

---------------------------------------------------------------------------
(* Persistence: the dict save() dumps *)

\* datetime.now().isoformat() when the clock reads t seconds past the epoch
\* (UTC, no microseconds)
Isoformat(t) == "1970-01-01T00:00:0" \o ToString(t)

Snapshot(m, c, met, now) ==
    [mode |-> m,
     components |-> c,
     prompt |-> PromptLines(c),
     metrics |-> ToDict(met, now),
     timestamp |-> Isoformat(now),
     validation |->
        [is_valid |-> ValidationResult(m, c).is_valid,
         clarity_score |-> ValidationResult(m, c).clarity_score,
         completeness_score |-> ValidationResult(m, c).completeness_score,
         overall_score |-> OverallScore(ValidationResult(m, c)),
         issues |-> ValidationResult(m, c).issues,
         suggestions |-> ValidationResult(m, c).suggestions]]

---------------------------------------------------------------------------
(* What the user and the callers may supply *)

ShortRole == "a dev"

LongRole == "a senior Python developer"

BetterRole == "a principal Python code reviewer"

ShortTask == "review code"

LongTask == "review code for bugs and security issues"

\* answers typed at the wizard's prompts
RoleAnswers == {"", LongRole}

TaskAnswers == {"", LongTask}

TextAnswers == {"", "as agreed"}

ItemAnswers == {"Be constructive"}

\* what the user types at the two prompts of an example pair
ExampleInputs == {"2+2"}

ExampleOutputs == {"4"}

ExampleAnswers ==
    {[input |-> i, output |-> o] : i \in ExampleInputs, o \in ExampleOutputs}

\* the option list of the reasoning-pattern prompt
Patterns ==
    <<"analytical", "creative", "technical", "step-by-step", "comparative",
      "custom">>

\* the numbers the user picks at that prompt
PatternChoices == {1, 6}

CustomPatternAnswers == {"", "improvise wildly"}

\* Prompt.ask("Enhanced role", default=role): the default on an empty input
EnhancedRoleAnswers(role) == {IF role = None THEN "" ELSE role[1], BetterRole}

\* ai_assistant.run(prompt): it raises, or returns an empty or a non-empty text
SuggestionOutcomes == {"error", "empty", "text"}

\* the patterns a caller writes: those of the table, the literal "custom",
\* a free text and the empty text
PatternValues ==
    {Patterns[i] : i \in 1..Len(Patterns)} \cup {"improvise wildly", ""}

\* the values a caller writes into builder.components[f]
Values(f) ==
    IF f = "role" THEN {Some(""), Some(ShortRole), Some(LongRole)}
    ELSE IF f = "task" THEN {Some(""), Some(ShortTask), Some(LongTask)}
    ELSE IF f = "examples" THEN {<<e>> : e \in ExampleAnswers}
    ELSE IF f \in ListFields THEN {<<a>> : a \in ItemAnswers}
    ELSE IF f = "reasoning_pattern" THEN {Some(p) : p \in PatternValues}
    ELSE {Some("as agreed")}

\* the dict a caller passes to builder.components.update() for a Full
\* builder; the callers of the smaller tiers pass its first 3 or 6 entries
FullPayload ==
    [role |-> Some(LongRole),
     task |-> Some(LongTask),
     constraints |-> <<"Be constructive", "Focus on security", "Be constructive">>,
     context |-> Some("Code review for a web application"),
     examples |-> <<[input |-> "def add(a, b): return a + b", output |-> "ok"],
                    [input |-> "2+2", output |-> "4"]>>,
     output_format |-> Some("Markdown with sections"),
     reasoning_pattern |-> Some("technical"),
     success_criteria |-> <<"All critical bugs identified">>,
     edge_cases |-> <<"Empty input", "Legacy code">>,
     performance_requirements |-> Some("Under 30 seconds"),
     custom_instructions |-> <<"Be thorough">>]

Payload(m) == [f \in Schema(m) |-> FullPayload[f]]

\* what the user types at the rating prompt
RatingAnswers == {"8", "great"}

\* float(rating): None stands for the ValueError
Float(text) == IF text = "8" THEN Some(8) ELSE None

\* SimpleAgent.__init__ of the legacy builder
InitialData ==
    [WHO |-> [role |-> ""],
     WHAT |-> [main_task |-> "", can_do |-> <<>>, cannot_do |-> <<>>],
     HOW |-> [style |-> "", approach |-> ""],
     OUTPUT |-> [format |-> "", example |-> ""],
     TEST |-> [prompt |-> "", success |-> ""]]

---------------------------------------------------------------------------
(* Construction: AgentBuilder.__init__ *)

\* the builder as constructed when time.time() reads now, with the caller at
\* the given position
Construct(i, at, now) ==
    /\ mode \in Modes
    /\ interactive = i
    /\ ai_assistant \in (IF mode = "basic" THEN {FALSE} ELSE BOOLEAN)
    /\ clock = now
    /\ components = InitialComponents(mode)
    /\ metrics = InitialMetrics(mode, clock)
    /\ pc = "idle"
    /\ called = "build"
    /\ acc = <<>>
    /\ input_ex = None
    /\ builds = 0
    /\ sets = 0
    /\ validation = <<>>
    /\ solicited = <<>>
    /\ written = [f \in AllFields |-> 0]
    /\ prompt = <<>>
    /\ reading = <<>>
    /\ files = <<>>
    /\ main = at
    /\ raised = "none"
    /\ step = "start"
    /\ data = InitialData
    /\ content = <<>>
    /\ refiner = [enabled |-> FALSE, agent |-> FALSE]
    /\ refined = None
    /\ inputs = <<>>
    /\ filename = None
    /\ saved = <<>>
    /\ first = None

Init == \E i \in BOOLEAN : Construct(i, "script", 1)

---------------------------------------------------------------------------
(* The collection driver: build() and the build_* methods *)

Filled(m) == [m EXCEPT !.components_filled = @ + 1]

\* a build() that leaves the end timestamp to a later stage
FinalizeNotInBuild(m, t) == m

\* a build() that counts a field as filled whenever it returns
FinalizeCountsField(m, t) ==
    [m EXCEPT !.end_time = Some(t), !.components_filled = @ + 1]

\* build() sets the end timestamp when the build_* method returns
Finalize(m, t) == [m EXCEPT !.end_time = Some(t)]

\* the build_* method that runs: build() picks it by the mode, any mode
\* other than the first two going to build_expert; a direct call names it
Route(method, m) ==
    IF method = "build"
    THEN IF m = "basic" THEN "build_basic"
         ELSE IF m = "ai_assisted" THEN "build_ai_assisted"
         ELSE "build_expert"
    ELSE method

\* the return of the outermost build_* method: build() sets the end timestamp
\* after it, a direct caller gets control back with the metrics as they are
Return(method, m, t) == IF method = "build" THEN Finalize(m, t) ELSE m

\* go on to prompt p; "end" is the return of the outermost build_* method
Goto(p, m) ==
    IF p = "end"
    THEN /\ metrics' = Return(called, m, clock)
         /\ pc' = "idle"
         /\ clock' = clock
    ELSE /\ pc' = p
         /\ metrics' = m
         /\ clock' = clock

\* a driver that jumps over the context prompt
AfterBasicSkipsContext ==
    IF Route(called, mode) = "build_basic" THEN "end"
    ELSE IF ai_assistant THEN "ai_suggest"
    ELSE "examples_confirm"

\* a driver that enters the AI phase without looking for the assistant
AfterBasicAlwaysSuggests ==
    IF Route(called, mode) = "build_basic" THEN "end" ELSE "ai_suggest"

\* after the constraints build_basic() returns, into its caller
\* build_ai_assisted() when that is the one running
AfterBasic ==
    IF Route(called, mode) = "build_basic" THEN "end"
    ELSE IF ai_assistant THEN "ai_suggest"
    ELSE "context"

\* after the output format build_ai_assisted() returns, into its caller
\* build_expert() when that is the one running
AfterAssisted ==
    IF Route(called, mode) = "build_ai_assisted" THEN "end"
    ELSE "reasoning_pattern"

Visit(f) == solicited' = Append(solicited, f)

Write(f) == written' = [written EXCEPT ![f] = @ + 1]

\* no method of the builder is running
CanBuild ==
    /\ pc = "idle"
    /\ builds < MaxBuilds

\* a call of the given method; every build_* method starts with the role
\* prompt, and on a non-interactive builder returns at once
Call(method) ==
    /\ CanBuild
    /\ called' = method
    /\ builds' = builds + 1
    /\ acc' = <<>>
    /\ validation' = <<>>
    /\ solicited' = <<>>
    /\ written' = [f \in AllFields |-> 0]
    /\ IF interactive
       THEN /\ pc' = "role"
            /\ UNCHANGED <<metrics, clock>>
       ELSE /\ pc' = "idle"
            /\ metrics' = Return(method, metrics, clock)
            /\ UNCHANGED clock
    /\ prompt' = <<>>
    /\ reading' = <<>>
    /\ UNCHANGED <<legacy, first, input_ex, mode, interactive, ai_assistant, components,
                   sets, files, main, raised>>

Build == Call("build")

\* the build_* methods called directly, whatever the builder's mode
BuildBasic == Call("build_basic")

BuildAiAssisted == Call("build_ai_assisted")

BuildExpert == Call("build_expert")

AnswerRole ==
    /\ pc = "role"
    /\ \E a \in RoleAnswers :
        /\ components' = ("role" :> Some(a)) @@ components
        /\ Goto("task", Filled(metrics))
    /\ Visit("role") /\ Write("role")
    /\ UNCHANGED <<legacy, first, locals, caller, mode, interactive, ai_assistant,
                   acc, builds, sets, validation>>

AnswerTask ==
    /\ pc = "task"
    /\ \E a \in TaskAnswers :
        /\ components' = ("task" :> Some(a)) @@ components
        /\ Goto("constraints", Filled(metrics))
    /\ Visit("task") /\ Write("task")
    /\ UNCHANGED <<legacy, first, locals, caller, mode, interactive, ai_assistant,
                   acc, builds, sets, validation>>

\* one more item of a collection loop; the loop's first prompt solicits f
\* unless a confirmation did so before
AddItem(f, items) ==
    /\ pc = f
    /\ Len(acc) < MaxItems
    /\ \E a \in items : acc' = Append(acc, a)
    /\ IF acc = <<>> /\ (solicited = <<>> \/ solicited[Len(solicited)] # f)
       THEN Visit(f) ELSE UNCHANGED solicited
    /\ UNCHANGED <<legacy, first, locals, caller, mode, interactive, ai_assistant,
                   components, metrics, clock,
                   pc, builds, sets, validation, written>>

\* the empty answer ends a loop whose list is stored only when non-empty
EndItems(f, next) ==
    /\ pc = f
    /\ IF acc # <<>>
       THEN /\ components' = (f :> acc) @@ components
            /\ Goto(next, Filled(metrics))
            /\ Write(f)
       ELSE /\ Goto(next, metrics)
            /\ UNCHANGED <<components, written>>
    /\ acc' = <<>>
    /\ IF acc = <<>> /\ (solicited = <<>> \/ solicited[Len(solicited)] # f)
       THEN Visit(f) ELSE UNCHANGED solicited
    /\ UNCHANGED <<legacy, first, locals, caller, mode, interactive, ai_assistant,
                   builds, sets, validation>>

\* Confirm.ask before an optional field
ConfirmField(here, f, next) ==
    /\ pc = here
    /\ \E yes \in BOOLEAN : Goto(IF yes THEN f ELSE next, metrics)
    /\ Visit(f)
    /\ UNCHANGED <<legacy, first, locals, caller, mode, interactive, ai_assistant,
                   components, acc, builds,
                   sets, validation, written>>

\* an optional text stored only when non-empty
AnswerOptional(f, next) ==
    /\ pc = f
    /\ \E a \in TextAnswers :
        IF a # ""
        THEN /\ components' = (f :> Some(a)) @@ components
             /\ Goto(next, Filled(metrics))
             /\ Write(f)
        ELSE /\ Goto(next, metrics)
             /\ UNCHANGED <<components, written>>
    /\ Visit(f)
    /\ UNCHANGED <<legacy, first, locals, caller, mode, interactive, ai_assistant,
                   acc, builds, sets, validation>>

AddConstraint == AddItem("constraints", ItemAnswers)

\* the empty answer ends the loop; constraints are stored even when empty
EndConstraints ==
    /\ pc = "constraints"
    /\ components' = ("constraints" :> acc) @@ components
    /\ Goto(AfterBasic, IF acc # <<>> THEN Filled(metrics) ELSE metrics)
    /\ acc' = <<>>
    /\ IF acc = <<>> THEN Visit("constraints") ELSE UNCHANGED solicited
    /\ Write("constraints")
    /\ UNCHANGED <<legacy, first, locals, caller, mode, interactive, ai_assistant,
                   builds, sets, validation>>

\* a suggestion call that is not counted
OfferedNotCounted(m) == m

Offered(m) == [m EXCEPT !.ai_suggestions_offered = @ + 1]

Used(m) == [m EXCEPT !.ai_suggestions_used = @ + 1]

\* an enhancement phase that counts a failed call as a suggestion offered
AiSuggestOutcomeCountsFailure(o) ==
    IF o = "error" THEN Goto("context", Offered(metrics))
    ELSE IF o = "empty" THEN Goto("context", Offered(metrics))
    ELSE Goto("ai_confirm", Offered(metrics))

\* what follows the call: the exception is caught and None returned, or the
\* suggestion is counted and, when it is non-empty, shown
AiSuggestOutcome(o) ==
    IF o = "error" THEN Goto("context", metrics)
    ELSE IF o = "empty" THEN Goto("context", Offered(metrics))
    ELSE Goto("ai_confirm", Offered(metrics))

\* _get_ai_suggestion("role", ...) in the AI enhancement phase
AiSuggest ==
    /\ pc = "ai_suggest"
    /\ \E o \in SuggestionOutcomes : AiSuggestOutcome(o)
    /\ UNCHANGED <<legacy, first, locals, caller, mode, interactive, ai_assistant,
                   components, acc, builds,
                   sets, validation, solicited, written>>

\* Confirm.ask("Apply this suggestion?")
AiConfirm ==
    /\ pc = "ai_confirm"
    /\ \E yes \in BOOLEAN : Goto(IF yes THEN "ai_role" ELSE "context", metrics)
    /\ UNCHANGED <<legacy, first, locals, caller, mode, interactive, ai_assistant,
                   components, acc, builds,
                   sets, validation, solicited, written>>

\* Prompt.ask("Enhanced role"): the role is written again
AiRole ==
    /\ pc = "ai_role"
    /\ \E a \in EnhancedRoleAnswers(components["role"]) :
        components' = ("role" :> Some(a)) @@ components
    /\ Goto("context", Used(metrics))
    /\ Visit("role") /\ Write("role")
    /\ UNCHANGED <<legacy, first, locals, caller, mode, interactive, ai_assistant,
                   acc, builds, sets, validation>>

AnswerContext == AnswerOptional("context", "examples_confirm")

ConfirmExamples == ConfirmField("examples_confirm", "examples", "output_format")

\* Prompt.ask("Example input (or Enter to finish)") answered with a text:
\* the loop goes on to the output prompt
AskExampleInput ==
    /\ pc = "examples"
    /\ Len(acc) < MaxItems
    /\ \E a \in ExampleInputs : input_ex' = Some(a)
    /\ pc' = "example_output"
    /\ IF acc = <<>> /\ (solicited = <<>> \/ solicited[Len(solicited)] # "examples")
       THEN Visit("examples") ELSE UNCHANGED solicited
    /\ UNCHANGED <<legacy, first, called, caller, mode, interactive, ai_assistant,
                   components, metrics, clock, acc, builds, sets, validation,
                   written>>

\* Prompt.ask("Expected output"): the pair is appended and the loop asks for
\* the next input
AddExample ==
    /\ pc = "example_output"
    /\ \E a \in ExampleOutputs :
        acc' = Append(acc, [input |-> input_ex[1], output |-> a])
    /\ input_ex' = None
    /\ pc' = "examples"
    /\ UNCHANGED <<legacy, first, called, caller, mode, interactive, ai_assistant,
                   components, metrics, clock, builds, sets, validation,
                   solicited, written>>

EndExamples == EndItems("examples", "output_format")

AnswerOutputFormat == AnswerOptional("output_format", AfterAssisted)

\* the numbered choice; "custom" asks for the pattern text next
ChoosePattern ==
    /\ pc = "reasoning_pattern"
    /\ \E i \in PatternChoices :
        IF Patterns[i] = "custom"
        THEN /\ Goto("custom_pattern", metrics)
             /\ UNCHANGED <<components, written>>
        ELSE /\ components' =
                    ("reasoning_pattern" :> Some(Patterns[i])) @@ components
             /\ Goto("success_criteria", Filled(metrics))
             /\ Write("reasoning_pattern")
    /\ Visit("reasoning_pattern")
    /\ UNCHANGED <<legacy, first, locals, caller, mode, interactive, ai_assistant,
                   acc, builds, sets, validation>>

AnswerCustomPattern ==
    /\ pc = "custom_pattern"
    /\ \E a \in CustomPatternAnswers :
        components' = ("reasoning_pattern" :> Some(a)) @@ components
    /\ Goto("success_criteria", Filled(metrics))
    /\ Write("reasoning_pattern")
    /\ UNCHANGED <<legacy, first, locals, caller, mode, interactive, ai_assistant, acc, builds, sets,
                   validation, solicited>>

AddCriterion == AddItem("success_criteria", ItemAnswers)

EndCriteria == EndItems("success_criteria", "edge_confirm")

ConfirmEdgeCases == ConfirmField("edge_confirm", "edge_cases", "perf_confirm")

AddEdgeCase == AddItem("edge_cases", ItemAnswers)

EndEdgeCases == EndItems("edge_cases", "perf_confirm")

ConfirmPerformance ==
    ConfirmField("perf_confirm", "performance_requirements", "custom_confirm")

\* the answer is stored and counted whatever it is
AnswerPerformance ==
    /\ pc = "performance_requirements"
    /\ \E a \in TextAnswers :
        components' = ("performance_requirements" :> Some(a)) @@ components
    /\ Goto("custom_confirm", Filled(metrics))
    /\ Write("performance_requirements")
    /\ UNCHANGED <<legacy, first, locals, caller, mode, interactive, ai_assistant, acc, builds, sets,
                   validation, solicited>>

ConfirmCustom == ConfirmField("custom_confirm", "custom_instructions", "end")

AddCustom == AddItem("custom_instructions", ItemAnswers)

EndCustom == EndItems("custom_instructions", "end")

---------------------------------------------------------------------------
(* Operations outside build() *)

\* time passes; the answers of one build() are taken to arrive at one instant
Tick ==
    /\ pc = "idle"
    /\ clock < MaxClock
    /\ clock' = clock + 1
    /\ reading' = <<>>
    /\ UNCHANGED <<legacy, first, locals, mode, interactive, ai_assistant, components, metrics, pc, acc,
                   builds, sets, validation, solicited, written, prompt, files,
                   main, raised>>

\* builder.components[f] = v by the caller, as the tests and examples do
SetComponent ==
    /\ pc = "idle"
    /\ sets < MaxSets
    /\ \E f \in AllFields : \E v \in Values(f) :
        components' = (f :> v) @@ components
    /\ sets' = sets + 1
    /\ validation' = <<>>
    /\ prompt' = <<>>
    /\ UNCHANGED <<legacy, first, locals, mode, interactive, ai_assistant, metrics, clock, pc, acc,
                   builds, solicited, written, reading, files, main, raised>>

\* validate_prompt(): the result is returned and its overall score recorded
ValidatePrompt ==
    /\ pc = "idle"
    /\ validation' = <<ValidationResult(mode, components)>>
    /\ metrics' = [metrics EXCEPT !.validation_score =
                        OverallScore(ValidationResult(mode, components))]
    /\ reading' = <<>>
    /\ UNCHANGED <<legacy, first, locals, mode, interactive, ai_assistant, components, clock, pc, acc,
                   builds, sets, solicited, written, prompt, files, main, raised>>

\* builder.components.update(payload) by the caller
Update ==
    /\ pc = "idle"
    /\ sets < MaxSets
    /\ components' = Payload(mode) @@ components
    /\ sets' = sets + 1
    /\ validation' = <<>>
    /\ prompt' = <<>>
    /\ UNCHANGED <<legacy, first, locals, mode, interactive, ai_assistant, metrics, clock, pc, acc,
                   builds, solicited, written, reading, files, main, raised>>

\* builder.metrics.components_filled = n by the caller: the tier's total, or
\* the number of truthy values of the store
SetFilled ==
    /\ pc = "idle"
    /\ \E n \in {TotalComponents(mode), FilledCount(components)} :
        /\ n # metrics.components_filled
        /\ metrics' = [metrics EXCEPT !.components_filled = n]
    /\ reading' = <<>>
    /\ UNCHANGED <<legacy, first, locals, mode, interactive, ai_assistant, components, clock, pc, acc,
                   builds, sets, validation, solicited, written, prompt, files,
                   main, raised>>

\* the pairs (offered, used) the example scripts assign
SuggestionCounts == {<<2, 1>>, <<5, 4>>}

\* builder.metrics.ai_suggestions_offered = o and
\* builder.metrics.ai_suggestions_used = u by the caller, one after the other
SetSuggestions ==
    /\ pc = "idle"
    /\ \E n \in SuggestionCounts :
        /\ <<metrics.ai_suggestions_offered, metrics.ai_suggestions_used>> # n
        /\ metrics' = [metrics EXCEPT !.ai_suggestions_offered = n[1],
                                      !.ai_suggestions_used = n[2]]
    /\ reading' = <<>>
    /\ UNCHANGED <<legacy, first, locals, mode, interactive, ai_assistant, components, clock, pc, acc,
                   builds, sets, validation, solicited, written, prompt, files,
                   main, raised>>

\* generate_prompt()
GeneratePrompt ==
    /\ pc = "idle"
    /\ prompt' = <<PromptLines(components)>>
    /\ UNCHANGED <<legacy, first, locals, mode, interactive, ai_assistant, components, metrics, clock,
                   pc, acc, builds, sets, validation, solicited, written,
                   reading, files, main, raised>>

\* prompt = builder.generate_prompt() in a script that goes through several
\* builders: the first call is kept, with self and the clock as it finds them
GeneratePromptInLoop ==
    /\ pc = "idle"
    /\ prompt' = <<PromptLines(components)>>
    /\ first' = IF first = None
                THEN Some([text |-> PromptLines(components),
                           self |-> [mode |-> mode,
                                     interactive |-> interactive,
                                     ai_assistant |-> ai_assistant,
                                     components |-> components,
                                     metrics |-> metrics,
                                     now |-> clock]])
                ELSE first
    /\ UNCHANGED <<legacy, mode, interactive, ai_assistant, components, metrics,
                   clock, pc, locals, acc, builds, sets, validation, solicited,
                   written, reading, files, main, raised>>

\* builder = AgentBuilder(mode=..., interactive=False) again: the script goes
\* on to its next builder, the clock and the files stay
NewBuilder ==
    /\ pc = "idle"
    /\ mode' \in Modes
    /\ interactive' = FALSE
    /\ ai_assistant' \in (IF mode' = "basic" THEN {FALSE} ELSE BOOLEAN)
    /\ components' = InitialComponents(mode')
    /\ metrics' = InitialMetrics(mode', clock)
    /\ pc' = "idle"
    /\ called' = "build"
    /\ acc' = <<>>
    /\ input_ex' = None
    /\ builds' = 0
    /\ sets' = 0
    /\ validation' = <<>>
    /\ solicited' = <<>>
    /\ written' = [f \in AllFields |-> 0]
    /\ prompt' = <<>>
    /\ reading' = <<>>
    /\ UNCHANGED <<legacy, first, clock, files, main, raised>>

\* metrics.to_dict()
MetricsToDict ==
    /\ pc = "idle"
    /\ reading' = <<ToDict(metrics, clock)>>
    /\ UNCHANGED <<legacy, first, locals, mode, interactive, ai_assistant, components, metrics, clock,
                   pc, acc, builds, sets, validation, solicited, written,
                   prompt, files, main, raised>>

\* save(): the dict is built (prompt, then metrics), validate_prompt() runs,
\* and the file is opened and written, or open() raises
SaveTo(writable) ==
    /\ pc = "idle"
    /\ prompt' = <<PromptLines(components)>>
    /\ validation' = <<ValidationResult(mode, components)>>
    /\ metrics' = [metrics EXCEPT !.validation_score =
                        OverallScore(ValidationResult(mode, components))]
    /\ reading' = <<>>
    /\ IF writable
       THEN /\ files' = Append(files, Snapshot(mode, components, metrics, clock))
            /\ raised' = raised
       ELSE /\ files' = files
            /\ raised' = "OSError"
    /\ UNCHANGED <<legacy, first, locals, mode, interactive, ai_assistant, components, clock, pc, acc,
                   builds, sets, solicited, written>>

\* save() by a library caller: the callers of the repository save last
Save ==
    /\ main = "script"
    /\ \E writable \in BOOLEAN :
        /\ SaveTo(writable)
        /\ main' = IF writable THEN "exit" ELSE "script"

---------------------------------------------------------------------------
(* The command-line entry point: cli.main() *)

\* a main() that swallows the interrupt and carries on after build()
OnKeyboardInterruptResumes == "build"

\* where main() is after "except KeyboardInterrupt"
OnKeyboardInterrupt == "cancelled"

\* the status line "Initializing Agent Builder..." around time.sleep(1),
\* between the construction of the builder and build(): the clock is read
\* in whole seconds
Loading ==
    /\ main = "loading"
    /\ clock' = clock + 1
    /\ main' = "build"
    /\ UNCHANGED <<legacy, first, locals, mode, interactive, ai_assistant, components, metrics, pc,
                   acc, builds, sets, validation, solicited, written, prompt,
                   reading, files, raised>>

\* builder.build() in main()
CliBuild ==
    /\ main = "build"
    /\ builds = 0
    /\ Build

\* display_summary(): the metrics table, then validate_prompt()
SummaryValidate ==
    /\ main = "build"
    /\ pc = "idle"
    /\ builds = 1
    /\ validation' = <<ValidationResult(mode, components)>>
    /\ metrics' = [metrics EXCEPT !.validation_score =
                        OverallScore(ValidationResult(mode, components))]
    /\ main' = "summary"
    /\ UNCHANGED <<legacy, first, locals, mode, interactive, ai_assistant, components, clock, pc, acc,
                   builds, sets, solicited, written, prompt, reading, files,
                   raised>>

\* display_summary(): the panel with generate_prompt()
SummaryPrompt ==
    /\ main = "summary"
    /\ prompt' = <<PromptLines(components)>>
    /\ main' = "save_confirm"
    /\ UNCHANGED <<legacy, first, locals, mode, interactive, ai_assistant, components, metrics, clock,
                   pc, acc, builds, sets, validation, solicited, written,
                   reading, files, raised>>

\* Confirm.ask("Save this prompt to file?") and builder.save() under the
\* status line "Saving prompt..."; an exception of save() is reported and
\* raised again
CliSave ==
    /\ main = "save_confirm"
    /\ \E yes \in BOOLEAN :
        IF yes
        THEN \E writable \in BOOLEAN :
                /\ SaveTo(writable)
                /\ main' = IF writable THEN "saving" ELSE "crashed"
        ELSE /\ main' = "rate_confirm"
             /\ UNCHANGED <<legacy, first, locals, mode, interactive, ai_assistant, components,
                            metrics, clock, pc, acc, builds, sets, validation,
                            solicited, written, prompt, reading, files, raised>>

\* time.sleep(0.5) after save() has returned, then the panel "Saved": half a
\* second moves the reading of the clock on by a second or leaves it
Saved ==
    /\ main = "saving"
    /\ \E seconds \in {0, 1} : clock' = clock + seconds
    /\ main' = "rate_confirm"
    /\ UNCHANGED <<legacy, first, locals, mode, interactive, ai_assistant, components, metrics, pc,
                   acc, builds, sets, validation, solicited, written, prompt,
                   reading, files, raised>>

\* Confirm.ask("Would you like to rate this experience?")
ConfirmRating ==
    /\ main = "rate_confirm"
    /\ \E yes \in BOOLEAN : main' = IF yes THEN "rate" ELSE "exit"
    /\ UNCHANGED <<legacy, first, locals, mode, interactive, ai_assistant, components, metrics, clock,
                   pc, acc, builds, sets, validation, solicited, written,
                   prompt, reading, files, raised>>

\* Prompt.ask("Rate your satisfaction"): a ValueError of float() is caught
AnswerRating ==
    /\ main = "rate"
    /\ \E a \in RatingAnswers :
        metrics' = IF Float(a) = None THEN metrics
                   ELSE [metrics EXCEPT !.user_satisfaction = Float(a)]
    /\ main' = "exit"
    /\ UNCHANGED <<legacy, first, locals, mode, interactive, ai_assistant, components, clock, pc, acc,
                   builds, sets, validation, solicited, written, prompt,
                   reading, files, raised>>

\* Ctrl-C anywhere inside main()'s try block
Interrupt ==
    /\ main \in {"loading", "build", "summary", "save_confirm", "saving",
                "rate_confirm", "rate"}
    /\ main' = OnKeyboardInterrupt
    /\ raised' = "KeyboardInterrupt"
    /\ pc' = "idle"
    /\ acc' = <<>>
    /\ input_ex' = None
    /\ UNCHANGED <<legacy, first, called, mode, interactive, ai_assistant, components,
                   metrics, clock, builds, sets, validation, solicited, written,
                   prompt, reading, files>>

---------------------------------------------------------------------------
(* The specifications *)

\* no method of the builder has been called yet
Fresh == builds = 0

\* one call of build() or of a build_* method on a builder as constructed,
\* the collection it runs, and the validator on what it leaves
Next ==
    \/ Fresh /\ Build
    \/ Fresh /\ BuildBasic
    \/ Fresh /\ BuildAiAssisted
    \/ Fresh /\ BuildExpert
    \/ AnswerRole
    \/ AnswerTask
    \/ AddConstraint
    \/ EndConstraints
    \/ AiSuggest
    \/ AiConfirm
    \/ AiRole
    \/ AnswerContext
    \/ ConfirmExamples
    \/ AskExampleInput
    \/ AddExample
    \/ EndExamples
    \/ AnswerOutputFormat
    \/ ChoosePattern
    \/ AnswerCustomPattern
    \/ AddCriterion
    \/ EndCriteria
    \/ ConfirmEdgeCases
    \/ AddEdgeCase
    \/ EndEdgeCases
    \/ ConfirmPerformance
    \/ AnswerPerformance
    \/ ConfirmCustom
    \/ AddCustom
    \/ EndCustom
    \/ ~Fresh /\ ValidatePrompt

Spec == Init /\ [][Next]_vars

\* the clock may read 0, the epoch, when the builder is constructed
StartTimes == {0, 1}

\* a library caller on a non-interactive builder, as the tests and examples
InitApi == \E now \in StartTimes : Construct(FALSE, "script", now)

\* the store written by a script, on a builder of either kind, and its two
\* readers: the renderer and the validator
NextRender ==
    \/ SetComponent
    \/ Update
    \/ SetFilled
    \/ GeneratePrompt
    \/ ValidatePrompt

SpecRender == Init /\ [][NextRender]_vars

\* the metrics record and persistence, until the caller has saved
Running == main = "script"

NextApi ==
    \/ Running /\ Build
    \/ Running /\ BuildBasic
    \/ Running /\ BuildAiAssisted
    \/ Running /\ BuildExpert
    \/ Running /\ Tick
    \/ Running /\ Update
    \/ Running /\ SetFilled
    \/ Running /\ SetSuggestions
    \/ Running /\ GeneratePrompt
    \/ Running /\ ValidatePrompt
    \/ Running /\ MetricsToDict
    \/ Save

SpecApi == InitApi /\ [][NextApi]_vars

\* a script that goes through several builders, as the loops of the examples:
\* each is constructed, written, rendered and validated
NextBatch ==
    \/ NewBuilder
    \/ Update
    \/ SetFilled
    \/ Tick
    \/ GeneratePromptInLoop
    \/ ValidatePrompt

SpecBatch == Init /\ [][NextBatch]_vars

\* build() called again and again on one builder of the Minimal or the
\* Guided tier
InitRebuild ==
    /\ \E i \in BOOLEAN : Construct(i, "script", 1)
    /\ mode # "expert"

NextRebuild ==
    \/ Build
    \/ AnswerRole
    \/ AnswerTask
    \/ AddConstraint
    \/ EndConstraints
    \/ AiSuggest
    \/ AiConfirm
    \/ AiRole
    \/ AnswerContext
    \/ ConfirmExamples
    \/ AskExampleInput
    \/ AddExample
    \/ EndExamples
    \/ AnswerOutputFormat
    \/ Tick

SpecRebuild == InitRebuild /\ [][NextRebuild]_vars

NextCli ==
    \/ Loading
    \/ CliBuild
    \/ AnswerRole
    \/ AnswerTask
    \/ AddConstraint
    \/ EndConstraints
    \/ AiSuggest
    \/ AiConfirm
    \/ AiRole
    \/ AnswerContext
    \/ ConfirmExamples
    \/ AskExampleInput
    \/ AddExample
    \/ EndExamples
    \/ AnswerOutputFormat
    \/ ChoosePattern
    \/ AnswerCustomPattern
    \/ AddCriterion
    \/ EndCriteria
    \/ ConfirmEdgeCases
    \/ AddEdgeCase
    \/ EndEdgeCases
    \/ ConfirmPerformance
    \/ AnswerPerformance
    \/ ConfirmCustom
    \/ AddCustom
    \/ EndCustom
    \/ SummaryValidate
    \/ SummaryPrompt
    \/ CliSave
    \/ Saved
    \/ ConfirmRating
    \/ AnswerRating
    \/ Interrupt

\* one run of the command-line program, from the construction of the builder
\* with the mode chosen on
SpecCli == Construct(TRUE, "loading", 1) /\ [][NextCli]_vars

---------------------------------------------------------------------------
(* The legacy five-step builder: simple_builder.py *)

\* An action is one statement that takes an input (a prompt, a call that can
\* fail) together with the assignment of what it returns.  What the program
\* prints between two of them is not part of the state: nothing reads it
\* back.

\* Prompt.ask(..., default=d): the default on an empty input
Ask(answer, default) == IF answer = "" THEN default ELSE answer

\* what the user types at the prompts of the five steps; LegacyTextAnswers
\* at the prompts where the model has the user take the default
LegacyRoleAnswers == {"", "QA engineer"}

CanDoAnswers == {"", "Debug existing code"}

CannotDoAnswers == {"", "Make breaking changes"}

StyleChoices == {"", "1"}

LegacyTextAnswers == {""}

\* the answers to "Filename"
FilenameAnswers == {"", "notes", "notes.md"}

\* int(choice) of a numeral Prompt.ask(choices=...) has let through
ToInt(choice) ==
    CASE choice = "1" -> 1
      [] choice = "2" -> 2
      [] choice = "3" -> 3
      [] choice = "4" -> 4
      [] choice = "5" -> 5
      [] choice = "6" -> 6

\* name.replace(".md", "_config.json"): every ".md" of the name, from the left
RECURSIVE ConfigName(_)
ConfigName(name) ==
    IF Len(name) < 3 THEN name
    ELSE IF SubSeq(name, 1, 3) = ".md"
         THEN "_config.json" \o ConfigName(SubSeq(name, 4, Len(name)))
         ELSE SubSeq(name, 1, 1) \o ConfigName(SubSeq(name, 2, Len(name)))

\* SimpleAgent.to_markdown(): the parts joined by "\n", as lines; a part
\* that ends in "\n" is followed by an empty line
ToMarkdown(d) ==
    <<"# AGENTS.md", "",
      "> AI Agent Instructions - Simple 5-Part Structure", "",
      "## WHO", "**Role:** " \o d.WHO.role, "",
      "## WHAT", "**Main Task:** " \o d.WHAT.main_task, "">>
    \o (IF d.WHAT.can_do # <<>>
        THEN <<"**Can Do:**">> \o Bullets(d.WHAT.can_do) \o <<"">>
        ELSE <<>>)
    \o (IF d.WHAT.cannot_do # <<>>
        THEN <<"**Cannot Do:**">> \o Bullets(d.WHAT.cannot_do) \o <<"">>
        ELSE <<>>)
    \o <<"## HOW", "**Style:** " \o d.HOW.style,
         "**Approach:** " \o d.HOW.approach, "",
         "## OUTPUT", "**Format:** " \o d.OUTPUT.format,
         "**Example:** " \o d.OUTPUT.example, "",
         "## TEST", "**Test Prompt:** " \o d.TEST.prompt,
         "**Success Looks Like:** " \o d.TEST.success, "">>

\* agent.run(task) raises (None) or returns a text: a rewritten instruction,
\* the empty text
AgentOutcomes ==
    {None, Some(<<"# AGENTS.md", "", "You are a careful reviewer.">>),
     Some(<<>>)}

\* a refiner that returns the empty text when the agent call fails
RefineOrNothing(r, original, outcome) ==
    IF ~r.enabled \/ ~r.agent THEN original
    ELSE IF outcome = None THEN <<>>
    ELSE outcome[1]

\* AIRefiner.refine(original) when the agent call has the given outcome
Refine(r, original, outcome) ==
    IF ~r.enabled \/ ~r.agent THEN original
    ELSE IF outcome = None THEN original
    ELSE outcome[1]

\* the environment gave the program this answer or outcome at this prompt or
\* call
Got(at, answer) == inputs' = Append(inputs, <<at, answer>>)

\* AgentsBuilder.run() starts: _welcome(), which exits on "no"
Welcome ==
    /\ step = "start"
    /\ \E ready \in {"y", "n"} :
        /\ Got("Ready to start?", ready)
        /\ step' = IF ready = "y" THEN "who" ELSE "exited"
    /\ UNCHANGED <<data, content, refiner, refined, filename, saved>>

\* _collect_who(): "Enter agent role"
CollectWho ==
    /\ step = "who"
    /\ \E a \in LegacyRoleAnswers :
        /\ Got("Enter agent role", a)
        /\ data' = [data EXCEPT !.WHO.role = Ask(a, "Python developer")]
    /\ step' = "main_task"
    /\ UNCHANGED <<content, refiner, refined, filename, saved>>

\* _collect_what(): "Main task"
CollectWhat ==
    /\ step = "main_task"
    /\ \E a \in LegacyTextAnswers :
        /\ Got("Main task", a)
        /\ data' = [data EXCEPT
                        !.WHAT.main_task = Ask(a, "Write and review code")]
    /\ step' = "can_do_1"
    /\ UNCHANGED <<content, refiner, refined, filename, saved>>

\* _collect_what(): one of the three prompts "Can do #i"; an empty answer
\* adds nothing
CollectCanDo ==
    /\ \E i \in 1..3 :
        /\ step = "can_do_" \o ToString(i)
        /\ \E a \in CanDoAnswers :
            /\ Got("Can do #" \o ToString(i), a)
            /\ data' = [data EXCEPT !.WHAT.can_do =
                                        IF a # "" THEN Append(@, a) ELSE @]
        /\ step' = IF i < 3 THEN "can_do_" \o ToString(i + 1)
                   ELSE "restrictions"
    /\ UNCHANGED <<content, refiner, refined, filename, saved>>

\* _collect_what(): Confirm.ask("Add restrictions?")
ConfirmRestrictions ==
    /\ step = "restrictions"
    /\ \E yes \in {"y", "n"} :
        /\ Got("Add restrictions?", yes)
        /\ step' = IF yes = "y" THEN "cannot_do_1" ELSE "style"
    /\ UNCHANGED <<data, content, refiner, refined, filename, saved>>

\* _collect_what(): one of the two prompts "Cannot do #i"
CollectCannotDo ==
    /\ \E i \in 1..2 :
        /\ step = "cannot_do_" \o ToString(i)
        /\ \E a \in CannotDoAnswers :
            /\ Got("Cannot do #" \o ToString(i), a)
            /\ data' = [data EXCEPT !.WHAT.cannot_do =
                                        IF a # "" THEN Append(@, a) ELSE @]
        /\ step' = IF i < 2 THEN "cannot_do_" \o ToString(i + 1)
                   ELSE "style"
    /\ UNCHANGED <<content, refiner, refined, filename, saved>>

\* _collect_how(): "Choose style", a number into EXAMPLES["HOW"]["styles"]
CollectHow ==
    /\ step = "style"
    /\ \E a \in StyleChoices :
        /\ Got("Choose style", a)
        /\ LET styles == <<"Professional", "Casual", "Technical",
                           "Educational">> IN
           data' = [data EXCEPT !.HOW.style = styles[ToInt(Ask(a, "3"))]]
    /\ step' = "approach"
    /\ UNCHANGED <<content, refiner, refined, filename, saved>>

\* _collect_how(): "Choose approach", a number into
\* EXAMPLES["HOW"]["approaches"]
CollectApproach ==
    /\ step = "approach"
    /\ \E a \in LegacyTextAnswers :
        /\ Got("Choose approach", a)
        /\ LET approaches == <<"Fast", "Careful", "Creative",
                               "By-the-book">> IN
           data' = [data EXCEPT
                        !.HOW.approach = approaches[ToInt(Ask(a, "2"))]]
    /\ step' = "format"
    /\ UNCHANGED <<content, refiner, refined, filename, saved>>

\* _collect_output(): "Choose format", a number into
\* EXAMPLES["OUTPUT"]["formats"]
CollectOutput ==
    /\ step = "format"
    /\ \E a \in LegacyTextAnswers :
        /\ Got("Choose format", a)
        /\ LET formats == <<"Text", "Code", "List", "Report", "JSON",
                            "Markdown">> IN
           data' = [data EXCEPT !.OUTPUT.format = formats[ToInt(Ask(a, "2"))]]
    /\ step' = "example"
    /\ UNCHANGED <<content, refiner, refined, filename, saved>>

\* _collect_output(): "Example"
CollectExample ==
    /\ step = "example"
    /\ \E a \in LegacyTextAnswers :
        /\ Got("Example", a)
        /\ data' = [data EXCEPT
                        !.OUTPUT.example = Ask(a, "Clear and concise output")]
    /\ step' = "test_prompt"
    /\ UNCHANGED <<content, refiner, refined, filename, saved>>

\* _collect_test(): "Test prompt"
CollectTest ==
    /\ step = "test_prompt"
    /\ \E a \in LegacyTextAnswers :
        /\ Got("Test prompt", a)
        /\ data' = [data EXCEPT
                        !.TEST.prompt = Ask(a, "Write a hello world function")]
    /\ step' = "success"
    /\ UNCHANGED <<content, refiner, refined, filename, saved>>

\* _collect_test(): "Success criteria"
CollectSuccess ==
    /\ step = "success"
    /\ \E a \in LegacyTextAnswers :
        /\ Got("Success criteria", a)
        /\ data' = [data EXCEPT !.TEST.success =
                        Ask(a, "Function works and has proper documentation")]
    /\ step' = "generate"
    /\ UNCHANGED <<content, refiner, refined, filename, saved>>

\* _generate()
Generate ==
    /\ step = "generate"
    /\ content' = ToMarkdown(data)
    /\ step' = "enhance"
    /\ UNCHANGED <<data, refiner, refined, inputs, filename, saved>>

\* _optional_refine(): Confirm.ask("Use AI to enhance this?")
AskRefine ==
    /\ step = "enhance"
    /\ \E yes \in {"y", "n"} :
        /\ Got("Use AI to enhance this?", yes)
        /\ step' = IF yes = "y" THEN "setup" ELSE "save"
    /\ UNCHANGED <<data, content, refiner, refined, filename, saved>>

\* self.refiner.setup(): an import or the Agent constructor raises, the
\* metaprompt file is missing, or the agent is created; without it
\* _optional_refine() is over
Setup ==
    /\ step = "setup"
    /\ \E o \in {"raises", "no_metaprompt", "ok"} :
        /\ Got("setup", o)
        /\ IF o = "ok"
           THEN /\ refiner' = [enabled |-> TRUE, agent |-> TRUE]
                /\ step' = "refine"
           ELSE /\ refiner' = refiner
                /\ step' = "save"
    /\ UNCHANGED <<data, content, refined, filename, saved>>

\* refined = self.refiner.refine(self.content): self.agent.run(task) returns
\* or raises an Exception, which refine() catches
RefineContent ==
    /\ step = "refine"
    /\ \E o \in AgentOutcomes :
        /\ Got("agent.run", IF o = None THEN "raises" ELSE "returns")
        /\ refined' = Some(Refine(refiner, content, o))
    /\ step' = "use"
    /\ UNCHANGED <<data, content, refiner, filename, saved>>

\* Confirm.ask("Use refined version?"), after the comparison is shown
UseRefined ==
    /\ step = "use"
    /\ \E yes \in {"y", "n"} :
        /\ Got("Use refined version?", yes)
        /\ content' = IF yes = "y" THEN refined[1] ELSE content
    /\ step' = "save"
    /\ UNCHANGED <<data, refiner, refined, filename, saved>>

\* _save(): Confirm.ask("Save AGENTS.md?")
ConfirmSave ==
    /\ step = "save"
    /\ \E yes \in {"y", "n"} :
        /\ Got("Save AGENTS.md?", yes)
        /\ step' = IF yes = "y" THEN "filename" ELSE "done"
    /\ UNCHANGED <<data, content, refiner, refined, filename, saved>>

\* _save(): Prompt.ask("Filename", default="AGENTS.md"); ".md" is added to a
\* name that does not end with it
AskFilename ==
    /\ step = "filename"
    /\ \E a \in FilenameAnswers :
        /\ Got("Filename", a)
        /\ LET name == Ask(a, "AGENTS.md") IN
           filename' =
                Some(IF /\ Len(name) >= 3
                        /\ SubSeq(name, Len(name) - 2, Len(name)) = ".md"
                     THEN name ELSE name \o ".md")
    /\ step' = "write"
    /\ UNCHANGED <<data, content, refiner, refined, saved>>

\* _save(): open(filename, "w") and f.write(self.content); an OSError of
\* open() leaves run() and is caught by main() ("except Exception")
SaveContent ==
    /\ step = "write"
    /\ \E writable \in BOOLEAN :
        IF writable
        THEN /\ Got("open", "ok")
             /\ saved' = Append(saved, [name |-> filename[1],
                                        text |-> content])
             /\ step' = "write_config"
        ELSE /\ Got("open", "raises")
             /\ saved' = saved
             /\ step' = "failed"
    /\ UNCHANGED <<data, content, refiner, refined, filename>>

\* _save(): open(config_file, "w") and json.dump(self.agent.data, f)
SaveConfig ==
    /\ step = "write_config"
    /\ \E writable \in BOOLEAN :
        IF writable
        THEN /\ Got("open", "ok")
             /\ saved' = Append(saved, [name |-> ConfigName(filename[1]),
                                        config |-> data])
             /\ step' = "done"
        ELSE /\ Got("open", "raises")
             /\ saved' = saved
             /\ step' = "failed"
    /\ UNCHANGED <<data, content, refiner, refined, filename>>

\* Ctrl-C while run() is at a prompt or in a call: the KeyboardInterrupt
\* passes every "except Exception" and is caught by main(); not when run()
\* has returned or has been left
Cancel ==
    /\ step \notin {"exited", "done", "failed", "cancelled"}
    /\ Got(step, "KeyboardInterrupt")
    /\ step' = "cancelled"
    /\ UNCHANGED <<data, content, refiner, refined, filename, saved>>

\* the state of the tiered builder, which the legacy builder does not touch
builder ==
    <<mode, interactive, ai_assistant, components, metrics, clock, pc, acc,
      builds, sets, validation, solicited, written, locals, caller, first>>

NextLegacy ==
    \/ Welcome /\ UNCHANGED builder
    \/ CollectWho /\ UNCHANGED builder
    \/ CollectWhat /\ UNCHANGED builder
    \/ CollectCanDo /\ UNCHANGED builder
    \/ ConfirmRestrictions /\ UNCHANGED builder
    \/ CollectCannotDo /\ UNCHANGED builder
    \/ CollectHow /\ UNCHANGED builder
    \/ CollectApproach /\ UNCHANGED builder
    \/ CollectOutput /\ UNCHANGED builder
    \/ CollectExample /\ UNCHANGED builder
    \/ CollectTest /\ UNCHANGED builder
    \/ CollectSuccess /\ UNCHANGED builder
    \/ Generate /\ UNCHANGED builder
    \/ AskRefine /\ UNCHANGED builder
    \/ Setup /\ UNCHANGED builder
    \/ RefineContent /\ UNCHANGED builder
    \/ UseRefined /\ UNCHANGED builder
    \/ ConfirmSave /\ UNCHANGED builder
    \/ AskFilename /\ UNCHANGED builder
    \/ SaveContent /\ UNCHANGED builder
    \/ SaveConfig /\ UNCHANGED builder
    \/ Cancel /\ UNCHANGED builder

\* one run of the legacy program: main()
SpecLegacy == Construct(FALSE, "script", 1) /\ [][NextLegacy]_vars

---------------------------------------------------------------------------
(* The claims *)

\* the result of the last validate_prompt() call on the store as it is now
Result == validation[1]

Validated == validation # <<>>

\* a field holds a non-empty value: a text other than "", a list with an item
NonEmptyField(f) ==
    /\ f \in DOMAIN components
    /\ IF f \in ListFields THEN components[f] # <<>>
       ELSE components[f] # <<>> /\ components[f] # <<"">>

NonEmptyCount == Cardinality({f \in AllFields : NonEmptyField(f)})

TierTotal == IF mode = "basic" THEN 3 ELSE IF mode = "ai_assisted" THEN 6 ELSE 11

\* C1: after a run of build(), in any tier, metrics.components_filled equals
\* the number of store fields holding a non-empty value (an empty answer
\* counts as visited, not as filled).
C1_CounterEqualsNonEmptyFields ==
    (pc = "idle" /\ builds = 1 /\ called = "build")
        => metrics.components_filled = NonEmptyCount

\* C2: once the end timestamp is set, a later finalization (the end of a
\* second build()) neither overwrites it nor changes time_to_create.
C2_EndTimeSetOnce ==
    [][metrics.end_time # None
        => /\ metrics'.end_time = metrics.end_time
           /\ TimeToCreate(metrics', clock') = TimeToCreate(metrics, clock)]_vars

\* C3: the completeness_score validate_prompt returns is the number of
\* non-empty fields divided by the tier's total field count (3, 6 or 11) and
\* lies in [0,1].
C3_CompletenessOverTierTotal ==
    Validated =>
        /\ Result.completeness_score.num * TierTotal
               = NonEmptyCount * Result.completeness_score.den
        /\ 0 <= Result.completeness_score.num
        /\ Result.completeness_score.num <= Result.completeness_score.den

\* C4: a write to a field outside the active tier's schema is refused: no new
\* key ever appears in the store.
C4_NoKeyOutsideSchema == DOMAIN components = Schema(mode)

\* the Full-tier store with a detailed role and task and nothing else, validated
C5_Case ==
    /\ Validated
    /\ mode = "expert"
    /\ NonEmptyField("role") /\ Len(components["role"][1]) >= 20
    /\ NonEmptyField("task") /\ Len(components["task"][1]) >= 30
    /\ NonEmptyCount = 2

\* C5 as stated: in that store completeness is 2/11, clarity 6.0, is_valid
\* is true and the suggestion list has exactly one entry.
C5_ExactlyOneSuggestion ==
    C5_Case =>
        /\ Result.completeness_score = [num |-> 2, den |-> 11]
        /\ Result.clarity_score = 6
        /\ Result.is_valid
        /\ Len(Result.suggestions) = 1

\* C5 amended: in that store completeness is 2/11, clarity 6.0, is_valid is
\* true, and the suggestion list has exactly two entries: the missing
\* constraints one and the expert-mode one.
C5_TwoSuggestions ==
    C5_Case =>
        /\ Result.completeness_score = [num |-> 2, den |-> 11]
        /\ Result.clarity_score = 6
        /\ Result.is_valid
        /\ Result.issues = <<>>
        /\ Result.suggestions =
              <<"Consider adding constraints to guide behavior",
                "Expert mode should utilize more advanced components">>

SchemaIndex(f) == CHOOSE i \in 1..Len(ExpertFields) : ExpertFields[i] = f

IsPrefix(s, t) == Len(s) <= Len(t) /\ s = SubSeq(t, 1, Len(s))

\* the fields the running method collects: those of the builder's tier under
\* build(), those of the method's own tier when it is called directly
RunSchema ==
    IF Route(called, mode) = "build_basic" THEN BasicFields
    ELSE IF Route(called, mode) = "build_ai_assisted" THEN AssistedFields
    ELSE ExpertFields

\* the role was asked for again after the constraints
RoleAskedAgain == Len(solicited) >= 4 /\ solicited[4] = "role"

\* the fields solicited, the second request for the role left out
FirstRequests ==
    IF RoleAskedAgain
    THEN SubSeq(solicited, 1, 3) \o SubSeq(solicited, 5, Len(solicited))
    ELSE solicited

\* C6 as stated: build() solicits the fields strictly in schema order, each
\* at most once, never going back, and writes every scalar field at most once.
C6_NeverGoesBack ==
    called = "build" =>
        /\ \A i, j \in 1..Len(solicited) :
              i < j => SchemaIndex(solicited[i]) < SchemaIndex(solicited[j])
        /\ \A f \in AllFields \ ListFields : written[f] <= 1

\* C6 amended: build() solicits the fields of the tier in schema order, the
\* higher tiers after the whole lower sequence, and a finished run has
\* visited them all; the one step back is the AI enhancement phase of a
\* Guided or Full build with the suggestion service present, which after
\* the constraints may ask for the role again and write it a second time.
\* Every other field is written at most once, the role at most twice. (A
\* build_* method called directly does the same with the fields of its own
\* tier.)
C6_OneStepBackForRole ==
    /\ called = "build" => RunSchema = SchemaSeq(mode)
    /\ IsPrefix(FirstRequests, RunSchema)
    /\ (interactive /\ pc = "idle" /\ builds >= 1)
          => FirstRequests = RunSchema
    /\ RoleAskedAgain
          => /\ Route(called, mode) # "build_basic"
             /\ mode # "basic" /\ ai_assistant
             /\ metrics.ai_suggestions_used >= 1
    /\ written["role"] <= (IF RoleAskedAgain THEN 2 ELSE 1)
    /\ \A f \in AllFields \ {"role"} : written[f] <= 1

\* C7: validate_prompt changes neither the components nor any field of the
\* metrics record.
C7_ValidateIsPure ==
    [][ValidatePrompt => components' = components /\ metrics' = metrics]_vars

\* C8: is_valid is true exactly when the issue list is empty, which is
\* exactly when role and task are both non-empty, whatever the suggestions.
C8_ValidIffRoleAndTask ==
    Validated =>
        /\ Result.is_valid <=> Result.issues = <<>>
        /\ Result.is_valid <=> (NonEmptyField("role") /\ NonEmptyField("task"))
        /\ NonEmptyCount = 0 => ~Result.is_valid

\* base: 8.0 for a role of 20 characters or more, 6.0 for a shorter one, 3.0
\* for none
BaseClarity ==
    IF ~NonEmptyField("role") THEN 3
    ELSE IF Len(components["role"][1]) >= 20 THEN 8
    ELSE 6

\* min(base, cap): cap 3.0 for no task, 7.0 for a task under 30 characters
BaseUnderTaskCap ==
    IF ~NonEmptyField("task") THEN Min(BaseClarity, 3)
    ELSE IF Len(components["task"][1]) < 30 THEN Min(BaseClarity, 7)
    ELSE BaseClarity

\* the completeness reported is below 0.7
ReportedLow ==
    Result.completeness_score.num * 10 < 7 * Result.completeness_score.den

\* C9 as stated: the clarity score is min(base, cap), lies within 0..10, and
\* is 3.0 when role and task are both empty.
C9_ClarityIsMinBaseCap ==
    Validated =>
        /\ Result.clarity_score = BaseUnderTaskCap
        /\ Result.clarity_score \in 0..10
        /\ (~NonEmptyField("role") /\ ~NonEmptyField("task"))
              => Result.clarity_score = 3

\* C9 amended: the clarity score is min(base, cap), and in the Full tier
\* with completeness below 0.7 min(base, cap, 6.0); it lies within 0..10 and
\* is 3.0 when role and task are both empty.
C9_ClarityIsMinBaseCapExpertCap ==
    Validated =>
        /\ Result.clarity_score =
              (IF mode = "expert" /\ ReportedLow
               THEN Min(BaseUnderTaskCap, 6) ELSE BaseUnderTaskCap)
        /\ Result.clarity_score \in 0..10
        /\ (~NonEmptyField("role") /\ ~NonEmptyField("task"))
              => Result.clarity_score = 3

ExpertSuggestion == "Expert mode should utilize more advanced components"

\* C10: in the Full tier with completeness below 0.7, that is 7 or fewer of
\* the 11 fields filled, clarity is at most 6.0 and the expert suggestion is
\* appended; with 8 or more filled, and in the other tiers, neither applies.
C10_ExpertCapBelowSevenTenths ==
    Validated =>
        /\ mode = "expert" => (ReportedLow <=> NonEmptyCount <= 7)
        /\ (mode = "expert" /\ NonEmptyCount <= 7)
              => /\ Result.clarity_score <= 6
                 /\ Result.suggestions[Len(Result.suggestions)] = ExpertSuggestion
        /\ (mode # "expert" \/ NonEmptyCount >= 8)
              => /\ Result.clarity_score = BaseUnderTaskCap
                 /\ ExpertSuggestion \notin Range(Result.suggestions)

\* the text generate_prompt() last returned for the store as it is now
Lines == prompt[1]

Rendered == prompt # <<>>

\* line i of the text is the heading and the lines after it are the bullets
\* of the items, one each and in order, and no further line belongs to them
BulletList(lines, i, heading, items) ==
    /\ lines[i] = heading
    /\ i + Len(items) <= Len(lines)
    /\ \A k \in 1..Len(items) : lines[i + k] = "- " \o items[k]
    /\ i + Len(items) < Len(lines) => lines[i + Len(items) + 1] = ""

\* a store of the Minimal tier, holding the three fields of its schema
C11_Store ==
    /\ mode = "basic"
    /\ DOMAIN components = Schema(mode)
    /\ components["role"] # None /\ Len(components["role"][1]) >= 20
    /\ components["task"] # None /\ Len(components["task"][1]) >= 30
    /\ Len(components["constraints"]) >= 1

\* C11: in the Minimal tier a store with a role of at least 20 characters,
\* a task of at least 30 and at least one constraint validates as valid with
\* clarity 8 and completeness 1, and its text has the line "You are <role>.",
\* the line "Your task is to <task>." and the heading "Constraints:" followed
\* by one "- <item>" line per constraint.
C11_MinimalStoreValidAndRendered ==
    C11_Store =>
        /\ Validated =>
                /\ Result.is_valid
                /\ Result.clarity_score = 8
                /\ Result.completeness_score.num = Result.completeness_score.den
        /\ Rendered =>
                /\ \E i \in 1..Len(Lines) :
                        Lines[i] = "You are " \o components["role"][1] \o "."
                /\ \E i \in 1..Len(Lines) :
                        Lines[i] = "Your task is to "
                                   \o components["task"][1] \o "."
                /\ \E i \in 1..Len(Lines) :
                        BulletList(Lines, i, "Constraints:",
                                   components["constraints"])

\* the driver is past the AI enhancement phase of an assisted build
PastEnhancement ==
    /\ interactive /\ ai_assistant /\ builds = 1
    /\ pc = "context" \/ "context" \in Range(solicited)

\* C12: when the suggestion call raises in the AI enhancement phase of a
\* Guided or Full build, the step leaves the store and both suggestion
\* counters as they were and the driver is at the context prompt; the role
\* stays the one written by the role prompt and the build goes through the
\* remaining fields of the tier in order.
C12_FailedSuggestionIsSkipped ==
    /\ [][(pc = "ai_suggest" /\ AiSuggestOutcome("error")) =>
            /\ components' = components
            /\ metrics'.ai_suggestions_offered = metrics.ai_suggestions_offered
            /\ metrics'.ai_suggestions_used = metrics.ai_suggestions_used
            /\ pc' = "context"]_vars
    /\ []((PastEnhancement /\ metrics.ai_suggestions_offered = 0) =>
            /\ metrics.ai_suggestions_used = 0
            /\ written["role"] = 1
            /\ IsPrefix(solicited, RunSchema)
            /\ pc = "idle" => solicited = RunSchema)

\* C13: on a builder without a suggestion service (library missing, no
\* API key, or a failed construction), in any tier, build() never enters
\* the AI phase and offers no suggestion: both suggestion counters stay 0,
\* and the fields of the tier are asked for in schema order, all of them
\* by the time build() returns.
C13_NoServiceNoSuggestion ==
    ~ai_assistant =>
        /\ metrics.ai_suggestions_offered = 0
        /\ metrics.ai_suggestions_used = 0
        /\ pc \notin {"ai_suggest", "ai_confirm", "ai_role"}
        /\ (interactive /\ builds >= 1) =>
                /\ IsPrefix(solicited, RunSchema)
                /\ pc = "idle" => solicited = RunSchema

\* the user has interrupted the run before build() returned
InterruptedInBuild == raised = "KeyboardInterrupt" /\ metrics.end_time = None

\* C14: once the user has interrupted the field collection of a command-line
\* run, the run is cancelled (not crashed, not resumed) and no snapshot is
\* ever written, whatever part of the store had been filled.
C14_NoSnapshotAfterInterrupt ==
    InterruptedInBuild => main = "cancelled" /\ files = <<>>

\* C15: a save() that fails because the destination cannot be written
\* raises to the caller and leaves the in-memory state as it was before the
\* attempt: the same components, the same rendered prompt and the same
\* metrics record.
C15_FailedSaveChangesNothing ==
    [][SaveTo(FALSE) =>
        /\ raised' = "OSError"
        /\ components' = components
        /\ PromptLines(components') = PromptLines(components)
        /\ metrics' = metrics]_vars

Finalized == metrics.end_time # None

\* the driver has populated the store: build() has returned
Populated == builds >= 1 /\ pc = "idle"

\* C16: in one wizard run the driver populates the store, then the text is
\* rendered, then the store is validated, then the end timestamp is set,
\* and only then the snapshot is written: the end timestamp is not set
\* before the store has been rendered and validated.
C16_FinalizedAfterRenderAndValidate ==
    /\ Rendered => Populated
    /\ Validated => Rendered
    /\ Finalized => Validated
    /\ files # <<>> => Finalized

\* C16 as the code has it: the driver populates the store, then build()
\* sets the end timestamp, then display_summary() validates the store and
\* after that renders the text, and only then the snapshot is written.
C16_FinalizedBeforeValidateAndRender ==
    /\ Finalized => Populated
    /\ Validated => Finalized
    /\ Rendered => Validated
    /\ files # <<>> => Rendered

\* the tier's base rate as the claim gives it, in hundredths
TierBase == IF mode = "basic" THEN 85 ELSE IF mode = "ai_assisted" THEN 92 ELSE 98

\* the ratio r equals TierBase/100 * filled / TierTotal
RateIs(r, filled) == r.num * 100 * TierTotal = TierBase * filled * r.den

\* C17: every read of the success rate gives base(tier) * components_filled /
\* total_components, with the bases 0.85 < 0.92 < 0.98; the value follows the
\* store: after finalization it is computed from the fields the store holds
\* filled at the time of the read, and with every field of the tier filled
\* it is the tier's base rate.
C17_RateFollowsStore ==
    [][MetricsToDict =>
        LET rate == reading'[1].estimated_success_rate IN
        /\ RateIs(rate, metrics.components_filled)
        /\ Finalized => RateIs(rate, NonEmptyCount)
        /\ (\A f \in Schema(mode) : NonEmptyField(f)) =>
                rate.num * 100 = TierBase * rate.den]_vars

\* C18: from construction on, every field of the tier's schema is a key of
\* the store and the key set is exactly the tier's schema, of 3, 6 or 11
\* fields: no operation deletes a key or adds one.
C18_KeySetIsTierSchema ==
    /\ [](/\ DOMAIN components = Schema(mode)
          /\ Cardinality(DOMAIN components) = TierTotal)
    /\ [][Schema(mode) \subseteq DOMAIN components'
            /\ DOMAIN components' = DOMAIN components]_vars

\* C19: the tier never changes, and in every reachable state
\* metrics.total_components is the number of keys of the store, 3, 6 or 11
\* by tier, so that completeness and filled/total share their denominator.
C19_TotalIsKeyCount ==
    /\ [](/\ metrics.total_components = Cardinality(DOMAIN components)
          /\ metrics.total_components = TierTotal
          /\ metrics.mode = mode)
    /\ [][mode' = mode]_vars

\* the order of the sections as the claim lists it
SectionOrder ==
    <<"role", "context", "task", "constraints", "examples",
      "reasoning_pattern", "output_format", "success_criteria", "edge_cases",
      "performance_requirements", "custom_instructions">>

\* the instruction sentence of a reasoning pattern, as the claims give it:
\* the canned sentence of the five patterns of the enumeration, else the
\* pattern itself
Instruction(p) ==
    IF p = "analytical"
        THEN "Think through this step-by-step, showing your reasoning."
    ELSE IF p = "creative"
        THEN "Explore multiple approaches before selecting the best one."
    ELSE IF p = "technical"
        THEN "Break down the technical requirements systematically."
    ELSE IF p = "step-by-step"
        THEN "Approach this methodically, one step at a time."
    ELSE IF p = "comparative"
        THEN "Compare different options and explain your choice."
    ELSE p

\* the line that opens the section of a populated field
Opening(f) ==
    IF f = "role" THEN "You are " \o components[f][1] \o "."
    ELSE IF f = "context" THEN "Context: " \o components[f][1]
    ELSE IF f = "task" THEN "Your task is to " \o components[f][1] \o "."
    ELSE IF f = "constraints" THEN "Constraints:"
    ELSE IF f = "examples" THEN "Examples:"
    ELSE IF f = "reasoning_pattern" THEN Instruction(components[f][1])
    ELSE IF f = "output_format" THEN "Output Format: " \o components[f][1]
    ELSE IF f = "success_criteria" THEN "Success Criteria:"
    ELSE IF f = "edge_cases" THEN "Consider these edge cases:"
    ELSE IF f = "performance_requirements"
        THEN "Performance Requirements: " \o components[f][1]
    ELSE "Additional Instructions:"

\* the place of the first line of the text that reads x, 0 if there is none
Place(x) ==
    IF \E i \in 1..Len(Lines) : Lines[i] = x
    THEN CHOOSE i \in 1..Len(Lines) :
            Lines[i] = x /\ \A j \in 1..(i - 1) : Lines[j] # x
    ELSE 0

\* the sections of the populated fields are there, in the order of the claim
SectionsInOrder ==
    /\ \A f \in AllFields : NonEmptyField(f) => Place(Opening(f)) > 0
    /\ \A i, j \in 1..Len(SectionOrder) :
            (i < j /\ NonEmptyField(SectionOrder[i])
                   /\ NonEmptyField(SectionOrder[j])) =>
                Place(Opening(SectionOrder[i])) < Place(Opening(SectionOrder[j]))

\* the heading at place i is followed by n lines of text, then by an empty
\* line or the end of the text
ItemLines(i, n) ==
    /\ i + n <= Len(Lines)
    /\ \A k \in 1..n : Lines[i + k] # ""
    /\ i + n < Len(Lines) => Lines[i + n + 1] = ""

TextLists == ListFields \ {"examples"}

\* the heading of a list of texts is followed by its "- item" bullets
BulletedLists ==
    \A f \in TextLists :
        NonEmptyField(f) =>
            BulletList(Lines, Place(Opening(f)), Opening(f), components[f])

\* the heading "Examples:" is followed, for pair k, by an empty line and the
\* lines "Example k:", "Input: ..." and "Output: ..."
NumberedExamples ==
    NonEmptyField("examples") =>
        LET at == Place("Examples:")
            examples == components["examples"]
        IN /\ at + 4 * Len(examples) <= Len(Lines)
           /\ \A k \in 1..Len(examples) :
                LET base == at + 4 * (k - 1) IN
                /\ Lines[base + 1] = ""
                /\ Lines[base + 2] = "Example " \o ToString(k) \o ":"
                /\ Lines[base + 3] = "Input: " \o examples[k].input
                /\ Lines[base + 4] = "Output: " \o examples[k].output

\* C20: the text has the sections of the populated fields in the fixed
\* order role, context, task, constraints, examples, reasoning pattern,
\* output_format, success_criteria, edge_cases, performance_requirements,
\* custom_instructions, and every list field, examples included, is its
\* heading followed by one line per item, in store order, duplicates kept.
C20_EveryListIsHeadingAndBullets ==
    Rendered =>
        /\ SectionsInOrder
        /\ BulletedLists
        /\ \A f \in ListFields :
                NonEmptyField(f) =>
                    ItemLines(Place(Opening(f)), Len(components[f]))

\* C20 as the code has it: the same order; every list of texts is its
\* heading followed by one "- item" bullet per item, in store order,
\* duplicates kept; examples are the heading followed by a numbered block
\* of an empty line and three lines per pair.
C20_TextListsBulletedExamplesNumbered ==
    Rendered =>
        /\ SectionsInOrder
        /\ BulletedLists
        /\ NumberedExamples

\* the number of lines of the section of a populated field: the role is one
\* line, every other section starts with an empty line; a list of texts has
\* its heading and a line per item, the examples their heading and four
\* lines per pair
SectionLength(f) ==
    IF f = "role" THEN 1
    ELSE IF f = "examples" THEN 2 + 4 * Len(components[f])
    ELSE IF f \in ListFields THEN 2 + Len(components[f])
    ELSE 2

RECURSIVE LengthOfSections(_)
LengthOfSections(fields) ==
    IF fields = <<>> THEN 0
    ELSE (IF NonEmptyField(Head(fields)) THEN SectionLength(Head(fields))
          ELSE 0) + LengthOfSections(Tail(fields))

\* the line a section of the field would open with if its value were empty
EmptyOpening(f) ==
    IF f = "role" THEN "You are ."
    ELSE IF f = "context" THEN "Context: "
    ELSE IF f = "task" THEN "Your task is to ."
    ELSE IF f = "constraints" THEN "Constraints:"
    ELSE IF f = "examples" THEN "Examples:"
    ELSE IF f = "output_format" THEN "Output Format: "
    ELSE IF f = "success_criteria" THEN "Success Criteria:"
    ELSE IF f = "edge_cases" THEN "Consider these edge cases:"
    ELSE IF f = "performance_requirements" THEN "Performance Requirements: "
    ELSE "Additional Instructions:"

NoFieldPopulated == \A f \in AllFields : ~NonEmptyField(f)

\* C21: generate_prompt can be called on every store and returns a text; a
\* field that is absent or empty contributes no line (no heading, no empty
\* bullet), so the text has exactly the lines of the populated fields, and
\* the store with no populated field renders as the empty text.
C21_EmptyFieldsRenderNothing ==
    /\ pc = "idle"
    /\ Len(PromptLines(components)) >= 0
    /\ Rendered =>
        /\ Len(Lines) = LengthOfSections(SectionOrder)
        /\ \A f \in AllFields \ {"reasoning_pattern"} :
                ~NonEmptyField(f) => Place(EmptyOpening(f)) = 0
        /\ Place("- ") = 0
        /\ NoFieldPopulated => Lines = <<>>

\* every line of s is in t, in the same relative order
RECURSIVE IsSubsequence(_, _)
IsSubsequence(s, t) ==
    IF s = <<>> THEN TRUE
    ELSE IF t = <<>> THEN FALSE
    ELSE IF Head(s) = Head(t) THEN IsSubsequence(Tail(s), Tail(t))
    ELSE IsSubsequence(s, Tail(t))

\* the step sets field f, empty or absent before, to a non-empty value and
\* leaves every other field of the store as it was
Fills(f) ==
    /\ ~NonEmptyField(f)
    /\ NonEmptyField(f)'
    /\ \A g \in DOMAIN components \ {f} : components'[g] = components[g]
    /\ DOMAIN components' = DOMAIN components \cup {f}

\* C22: setting a field that is empty to a non-empty value removes no line
\* from the rendered text: every line of the text of the store before the
\* write is in the text of the store after it, in the same relative order.
C22_RenderingIsMonotonic ==
    [][\A f \in AllFields :
            Fills(f) => IsSubsequence(PromptLines(components),
                                      PromptLines(components'))]_vars

\* the patterns of the enumeration that have a canned sentence
CannedPatterns ==
    {"analytical", "creative", "technical", "step-by-step", "comparative"}

\* an empty line followed by the line x is in the text
HasPart(x) == \E i \in 1..(Len(Lines) - 1) : Lines[i] = "" /\ Lines[i + 1] = x

\* C23: a reasoning_pattern of the enumeration is rendered as its canned
\* sentence (analytical as "Think through this step-by-step, showing your
\* reasoning.") and not as its name; "custom" and every other non-empty
\* value is the instruction sentence itself; an empty reasoning_pattern
\* adds no line.
C23_PatternIsCannedOrVerbatim ==
    (Rendered /\ "reasoning_pattern" \in DOMAIN components) =>
        LET value == components["reasoning_pattern"] IN
        IF value = None \/ value = Some("")
        THEN /\ \A p \in CannedPatterns : Place(Instruction(p)) = 0
             /\ Len(Lines) = LengthOfSections(SectionOrder)
        ELSE /\ value[1] = "analytical" =>
                    HasPart("Think through this step-by-step, "
                            \o "showing your reasoning.")
             /\ value[1] \in CannedPatterns =>
                    /\ HasPart(Instruction(value[1]))
                    /\ Instruction(value[1]) # value[1]
                    /\ Place(value[1]) = 0
             /\ value[1] \notin CannedPatterns => HasPart(value[1])
             /\ \A p \in CannedPatterns \ {value[1]} :
                    Place(Instruction(p)) = 0

\* the first call of the script
First == first[1]

C25_ElapsedFixedOnceFinalized ==
    [][MetricsToDict =>
            reading'[1].time_to_create_seconds =
                (IF Finalized THEN metrics.end_time[1] - metrics.start_time
                 ELSE clock - metrics.start_time)]_vars

\* C26: whatever builds have run, metrics.components_filled is at most
\* metrics.total_components, so the estimated success rate is at most the
\* base rate of the tier and at most 1.
C26_FilledNeverExceedsTotal ==
    pc = "idle" =>
        LET rate == SuccessRate(metrics) IN
        /\ metrics.components_filled <= metrics.total_components
        /\ rate.num * 100 <= TierBase * rate.den
        /\ rate.num <= rate.den

\* C27: in every snapshot save() has written, the validation_score of the
\* metrics record is the overall_score of the validation record.
C27_SnapshotScoresAgree ==
    \A i \in 1..Len(files) :
        LET score == files[i].metrics.validation_score
            overall == files[i].validation.overall_score
        IN score.num * overall.den = overall.num * score.den

\* the positions of the driver in the AI enhancement phase
EnhancementSteps == {"ai_suggest", "ai_confirm", "ai_role"}

\* C28: in every state of a wizard run ai_suggestions_used is at most
\* ai_suggestions_offered; offered goes up by one, and only in the step of
\* the suggestion call of a builder that has the service, when the call
\* returned; used goes up by one, and only when the user has accepted the
\* suggestion shown and answers the enhanced-role prompt; in the Minimal
\* tier there is no service, the phase is never entered and both stay 0.
C28_UsedAtMostOffered ==
    /\ [](/\ metrics.ai_suggestions_used <= metrics.ai_suggestions_offered
          /\ mode = "basic" =>
                /\ ~ai_assistant
                /\ pc \notin EnhancementSteps
                /\ metrics.ai_suggestions_offered = 0
                /\ metrics.ai_suggestions_used = 0)
    /\ [][metrics'.ai_suggestions_offered # metrics.ai_suggestions_offered =>
            /\ pc = "ai_suggest" /\ ai_assistant
            /\ pc' \in {"ai_confirm", "context"}
            /\ metrics'.ai_suggestions_offered =
                    metrics.ai_suggestions_offered + 1]_vars
    /\ [][metrics'.ai_suggestions_used # metrics.ai_suggestions_used =>
            /\ pc = "ai_role"
            /\ metrics'.ai_suggestions_used = metrics.ai_suggestions_used + 1]_vars
    /\ [][pc' = "ai_role" => pc = "ai_confirm"]_vars
    /\ [][pc' = "ai_confirm" =>
            metrics'.ai_suggestions_offered =
                metrics.ai_suggestions_offered + 1]_vars

\* C29: build() on a builder made with interactive=False, in any tier, puts
\* no prompt to the terminal and leaves the store, components_filled and
\* both suggestion counters as they were: of the builder's state it changes
\* metrics.end_time only, which becomes the time of the call.
C29_NonInteractiveBuildOnlyFinalizes ==
    [][(Build /\ ~interactive) =>
            /\ components' = components
            /\ metrics' = [metrics EXCEPT !.end_time = Some(clock)]
            /\ pc' = "idle"
            /\ solicited' = <<>>
            /\ <<mode, interactive, ai_assistant>>' =
                    <<mode, interactive, ai_assistant>>]_vars

\* the program got this answer or outcome at this prompt or call
Had(at, answer) == <<at, answer>> \in Range(inputs)

\* _optional_refine() has returned: run() is in _save() or past it
AfterRefine ==
    \/ step \in {"save", "filename", "write", "write_config", "done"}
    \/ \E a \in {"y", "n", "KeyboardInterrupt"} : Had("Save AGENTS.md?", a)
    \/ Had("save", "KeyboardInterrupt")

\* the user asked for refinement, setup() succeeded, the agent call returned
\* and the user took the refined version
RefinedVersionTaken ==
    /\ Had("Use AI to enhance this?", "y")
    /\ Had("setup", "ok")
    /\ Had("agent.run", "returns")
    /\ Had("Use refined version?", "y")

\* the AGENTS.md files among the files written
Written == {saved[k] : k \in {j \in DOMAIN saved : "text" \in DOMAIN saved[j]}}

\* C30: AIRefiner.refine gives back its input whenever the refiner is not
\* enabled or the agent call raises; so after _optional_refine the content,
\* which is what _save writes, is the markdown generated from the collected
\* data unless the user asked for refinement, setup succeeded, the agent
\* call returned and the user accepted the refined version.
C30_ContentIsMarkdownUnlessRefined ==
    /\ ~refiner.enabled =>
            \A o \in AgentOutcomes : Refine(refiner, content, o) = content
    /\ Refine(refiner, content, None) = content
    /\ Had("agent.run", "raises") => refined = Some(content)
    /\ (AfterRefine /\ ~RefinedVersionTaken) => content = ToMarkdown(data)
    /\ \A f \in Written :
        /\ AfterRefine
        /\ f.text = content
        /\ ~RefinedVersionTaken => f.text = ToMarkdown(data)

---------------------------------------------------------------------------
(* States in which the claims' cases occur *)

\* a finished interactive build in which the role was answered with ""
C1_EmptyRoleAnswered ==
    /\ interactive /\ pc = "idle" /\ builds = 1
    /\ components["role"] = Some("")

\* a detailed role and task, two suggestions, and a valid result
C8_ValidWithSuggestions ==
    /\ Validated
    /\ Result.is_valid
    /\ Len(Result.suggestions) >= 2

\* a finished Full build that asked for the role twice
C6_RoleWrittenTwice ==
    /\ mode = "expert" /\ pc = "idle" /\ builds = 1 /\ called = "build"
    /\ written["role"] = 2
    /\ FirstRequests = ExpertFields

\* the expert cap lowering a clarity that min(base, cap) leaves at 8.0
C9_ExpertCapApplied ==
    /\ Validated
    /\ mode = "expert"
    /\ BaseUnderTaskCap = 8
    /\ Result.clarity_score = 6

\* the Full tier at the boundary: 7 of 11 fields filled, validated
C10_SevenOfEleven ==
    /\ Validated
    /\ mode = "expert"
    /\ NonEmptyCount = 7
    /\ BaseUnderTaskCap = 8

\* the other side of the boundary: 8 of 11 fields filled, validated
C10_EightOfEleven ==
    /\ Validated
    /\ mode = "expert"
    /\ NonEmptyCount = 8

\* the Minimal store of the tests, validated and rendered
C11_ValidatedAndRendered ==
    /\ C11_Store
    /\ Len(components["constraints"]) = 3
    /\ Validated
    /\ Rendered

\* the call has failed and the Full build has run to its end
C12_BuildFinishedAfterFailure ==
    /\ PastEnhancement
    /\ called = "build"
    /\ mode = "expert"
    /\ metrics.ai_suggestions_offered = 0
    /\ pc = "idle"
    /\ components["role"] = Some(LongRole)

\* a Full build without the service has returned
C13_FullBuildWithoutService ==
    /\ ~ai_assistant
    /\ interactive
    /\ mode = "expert"
    /\ builds = 1
    /\ pc = "idle"
    /\ metrics.end_time # None

\* the interrupt came after the loading pause, when the role and the task
\* had been stored
C14_InterruptedMidCollection ==
    /\ InterruptedInBuild
    /\ builds = 1
    /\ components["role"] = Some(LongRole)
    /\ components["task"] = Some(LongTask)
    /\ main = "cancelled"
    /\ clock > metrics.start_time

\* a run that went through every stage and wrote its snapshot: build()
\* ended after the loading pause, and the pause after save() is over
C16_SnapshotWritten ==
    /\ main = "exit"
    /\ files # <<>>
    /\ Finalized /\ Validated /\ Rendered
    /\ mode = "ai_assisted"
    /\ metrics.end_time[1] > metrics.start_time
    /\ clock > metrics.end_time[1]

\* a Full store with all eleven fields populated, a constraint given twice
\* and two example pairs, rendered
C20_AllSectionsRendered ==
    /\ Rendered
    /\ \A f \in AllFields : NonEmptyField(f)
    /\ Len(components["constraints"]) = 3
    /\ components["constraints"][1] = components["constraints"][3]
    /\ Len(components["examples"]) = 2

\* a store whose role is the empty text and whose other fields are empty or
\* absent has been rendered
C21_AllEmptyRendered ==
    /\ Rendered
    /\ NoFieldPopulated
    /\ components["role"] = Some("")

\* two writes have each filled a field, one of them the role, and the store
\* has been rendered
C22_FieldAddedBeforeAnother ==
    /\ sets = 2
    /\ Rendered
    /\ Cardinality({f \in AllFields : NonEmptyField(f)}) = 2
    /\ NonEmptyField("role")
    /\ Len(Lines) > 1

\* a store whose reasoning_pattern is the literal "custom" has been rendered
C23_LiteralCustomRendered ==
    /\ Rendered
    /\ "reasoning_pattern" \in DOMAIN components
    /\ components["reasoning_pattern"] = Some("custom")
    /\ HasPart("custom")

C28_SuggestionUsed ==
    /\ interactive /\ ai_assistant
    /\ metrics.ai_suggestions_offered = 1
    /\ metrics.ai_suggestions_used = 1
    /\ components["role"] = Some(BetterRole)

\* build() has run on a non-interactive builder whose store holds a role
\* and whose counter was set by the caller
C29_BuiltWithoutTerminal ==
    /\ ~interactive
    /\ builds >= 1
    /\ Finalized
    /\ pc = "idle"
    /\ NonEmptyField("role")
    /\ metrics.components_filled > 0

\* the agent call raised, the user took the "refined" version all the same,
\* and the markdown of the collected data was written to notes.md, with the
\* data beside it
C30_FailedRefinementSaved ==
    /\ step = "done"
    /\ Had("agent.run", "raises")
    /\ Had("Use refined version?", "y")
    /\ data.WHAT.can_do # <<>>
    /\ Len(saved) = 2
    /\ saved[1] = [name |-> "notes.md", text |-> ToMarkdown(data)]
    /\ saved[2] = [name |-> "notes_config.json", config |-> data]

====
